---------------------------- MODULE Spec2Model ----------------------------
(***************************************************************************)
(* Campaign dispatch engine of the lottery server: the hourly runner       *)
(* GET /admin/campaign/run, its lock helpers, the Shopify customer          *)
(* directory client and the unsubscribe registry.                          *)
(*                                                                         *)
(* Strings are sequences of one-character strings, so that trimming,       *)
(* lower-casing, splitting and the regular-expression tests of the source  *)
(* are computed rather than assumed.  Time is counted in minutes.          *)
(***************************************************************************)
EXTENDS Integers, Sequences, FiniteSets, TLC

(***************************************************************************)
(* Bounds of the model.                                                    *)
(***************************************************************************)
MaxRuns == 3
MaxTime == 5

Procs == {1, 2}

\* SQL NULL of the integer and datetime columns.
NULL == -1

(***************************************************************************)
(* String helpers (JavaScript String methods used by the runner).          *)
(***************************************************************************)
UpperCase == <<"A","B","C","D","E","F","G","H","I","J","K","L","M",
               "N","O","P","Q","R","S","T","U","V","W","X","Y","Z">>
LowerCase == <<"a","b","c","d","e","f","g","h","i","j","k","l","m",
               "n","o","p","q","r","s","t","u","v","w","x","y","z">>
Digits == {"0","1","2","3","4","5","6","7","8","9"}

Letters == {UpperCase[i] : i \in 1..26} \cup {LowerCase[i] : i \in 1..26}

LowerOf == [ch \in {UpperCase[i] : i \in 1..26} |->
              LowerCase[CHOOSE i \in 1..26 : ch = UpperCase[i]]]

IsLetter(ch) == ch \in Letters

LowerChar(ch) == IF ch \in DOMAIN LowerOf THEN LowerOf[ch] ELSE ch

toLowerCase(s) == [i \in 1..Len(s) |-> LowerChar(s[i])]

RECURSIVE trimStart(_)
trimStart(s) ==
  IF s # <<>> /\ Head(s) = " " THEN trimStart(Tail(s)) ELSE s

RECURSIVE trimEnd(_)
trimEnd(s) ==
  IF s # <<>> /\ s[Len(s)] = " " THEN trimEnd(SubSeq(s, 1, Len(s) - 1)) ELSE s

trim(s) == trimEnd(trimStart(s))

\* String.prototype.replace with a string pattern: the first occurrence only.
replaceFirst(s, a, b) ==
  IF \E i \in 1..Len(s) : s[i] = a
  THEN LET k == CHOOSE i \in 1..Len(s) :
                  s[i] = a /\ \A j \in 1..(i - 1) : s[j] # a
       IN [i \in 1..Len(s) |-> IF i = k THEN b ELSE s[i]]
  ELSE s

\* String.prototype.split on a one-character separator.
RECURSIVE split(_, _)
split(s, sep) ==
  IF \E i \in 1..Len(s) : s[i] = sep
  THEN LET k == CHOOSE i \in 1..Len(s) :
                  s[i] = sep /\ \A j \in 1..(i - 1) : s[j] # sep
       IN <<SubSeq(s, 1, k - 1)>> \o split(SubSeq(s, k + 1, Len(s)), sep)
  ELSE <<s>>

Range(f) == {f[i] : i \in DOMAIN f}

Min(a, b) == IF a <= b THEN a ELSE b


(***************************************************************************)
(* Segmentation of one customer (runner, "segmentation logic").            *)
(***************************************************************************)
LangPrefix == <<"l","a","n","g","-">>

\* /^lang-[a-z]{2}$/i
isLangTag(t) ==
  /\ Len(t) = 7
  /\ toLowerCase(SubSeq(t, 1, 5)) = LangPrefix
  /\ IsLetter(t[6]) /\ IsLetter(t[7])

\* /^[a-z]{2}$/i
isBareLang(t) == Len(t) = 2 /\ IsLetter(t[1]) /\ IsLetter(t[2])

\* /^[a-z]{2}-[a-z0-9-]{2,}$/i
isFullLocale(t) ==
  /\ Len(t) >= 5
  /\ IsLetter(t[1]) /\ IsLetter(t[2]) /\ t[3] = "-"
  /\ \A i \in 4..Len(t) : IsLetter(t[i]) \/ t[i] \in Digits \/ t[i] = "-"

\* Array.prototype.find: the first element satisfying the test, '' when none.
FirstLangTag(tags) ==
  IF \E i \in 1..Len(tags) : isLangTag(tags[i])
  THEN tags[CHOOSE i \in 1..Len(tags) :
              isLangTag(tags[i]) /\ \A j \in 1..(i - 1) : ~isLangTag(tags[j])]
  ELSE <<>>

FirstBareLang(tags) ==
  IF \E i \in 1..Len(tags) : isBareLang(tags[i])
  THEN tags[CHOOSE i \in 1..Len(tags) :
              isBareLang(tags[i]) /\ \A j \in 1..(i - 1) : ~isBareLang(tags[j])]
  ELSE <<>>

\* taggedLang.replace(/^lang-/, '')
stripLangPrefix(t) ==
  IF Len(t) >= 5 /\ SubSeq(t, 1, 5) = LangPrefix THEN SubSeq(t, 6, Len(t)) ELSE t

\* A variant that keeps the locale as the customer record spells it.
custLocaleRaw(c) == trim(c.locale)

custLocale(c) == replaceFirst(toLowerCase(trim(c.locale)), "_", "-")

\* A variant that does not reduce the locale to its first subtag.
custLangWhole(c) == custLocale(c)

custLang(c) == trim(split(custLocale(c), "-")[1])

custTags(c) ==
  LET parts   == split(c.tags, ",")
      trimmed == [i \in 1..Len(parts) |-> trim(parts[i])]
      kept    == SelectSeq(trimmed, LAMBDA t : t # <<>>)
  IN [i \in 1..Len(kept) |-> replaceFirst(toLowerCase(kept[i]), "_", "-")]

langFromTags(tags) ==
  LET tagged == stripLangPrefix(FirstLangTag(tags))
  IN IF tagged # <<>> THEN tagged ELSE FirstBareLang(tags)

fullLocalesFromTags(tags) == SelectSeq(tags, isFullLocale)

baseFromFullTags(tags) ==
  LET full == fullLocalesFromTags(tags)
  IN [i \in 1..Len(full) |-> SubSeq(full[i], 1, 2)]

candidates(c) ==
  LET tags == custTags(c)
  IN ({custLang(c), custLocale(c), langFromTags(tags)}
        \cup Range(fullLocalesFromTags(tags))
        \cup Range(baseFromFullTags(tags))
        \cup Range(tags)) \ {<<>>}

\* (camp.segment || '').trim().toLowerCase(); a NULL segment is the empty string.
campSegment(camp) == toLowerCase(trim(camp.segment))

matchesSegment(c, camp) ==
  campSegment(camp) = <<>> \/ campSegment(camp) \in candidates(c)

\* normEmail: String(e || '').trim().toLowerCase()
normEmail(e) == toLowerCase(trim(e))


(***************************************************************************)
(* The customer directory (Shopify customers, ascending id) and the        *)
(* campaign configurations explored.                                       *)
(***************************************************************************)
Directory ==
  << [id |-> 1, email |-> <<"a","@","x">>,
      locale |-> <<"e","n","-","G","B">>, tags |-> <<"l","a","n","g","-","e","n">>],
     [id |-> 2, email |-> <<"b","@","x">>,
      locale |-> <<"f","r">>,             tags |-> <<>>],
     [id |-> 3, email |-> <<>>,
      locale |-> <<"e","n">>,             tags |-> <<>>],
     [id |-> 4, email |-> <<"C","@","x">>,
      locale |-> <<"e","n">>,             tags |-> <<"v","i","p">>] >>

CustomerIds == {Directory[i].id : i \in 1..Len(Directory)}

Segments == { <<>>, <<"e","n">> }

PerHourChoices == {1, 2}

TotalCapChoices == {1, 4}

\* POST /admin/campaign/create: segment, per_hour_limit, total_cap of the row.
\* The configurations explored under concurrent invocations.
Campaigns ==
  { [segment |-> <<"e","n">>, per_hour_limit |-> 1, total_cap |-> 4],
    [segment |-> <<"e","n">>, per_hour_limit |-> 2, total_cap |-> 4],
    [segment |-> <<>>,        per_hour_limit |-> 2, total_cap |-> 1] }

\* Addresses whose owners may follow their unsubscribe link.
UnsubLinks == { <<"c","@","x">> }

Lease == 4

VARIABLES
  row,       \* the email_campaigns row
  unsubs,    \* the unsubscribes table (set of addresses)
  now,       \* datetime('now'), in minutes
  started,   \* number of runner invocations launched so far
  pc,        \* where each invocation stands
  camp,      \* the row as read by the invocation's SELECT
  since, toSend, idx, sent, failed, skipped,   \* the handler's locals
  response,  \* the body of the most recent HTTP answer of the runner
  lease,     \* the lock_until value written by the invocation's acquire
  mailed,    \* how many times each customer id was handed to mailer.sendMail
  http,      \* the directory client: one call of fetchShopifyCustomers
  probe      \* one segmentation decision: customer, segment, outcome

vars == <<row, unsubs, now, started, pc, camp, since, toSend, idx, sent,
          failed, skipped, response, lease, mailed, http, probe>>

locals == <<camp, since, toSend, idx, sent, failed, skipped>>

NoCamp == [status |-> "none", per_hour_limit |-> 0, total_cap |-> 0,
           since_id |-> 0, sent_count |-> 0, failed_count |-> 0,
           skipped_count |-> 0, segment |-> <<>>]

\* No call of the directory client is being followed.
HttpIdle ==
  [pc |-> "idle", url |-> [limit |-> 0, since_id |-> 0], attempt |-> 0,
   requests |-> 0, asked |-> {}, status |-> 0, hint |-> 0, slept |-> 0,
   outcome |-> "none", records |-> <<>>]

\* No segmentation decision is being followed.
NoProbe ==
  [cust |-> [id |-> 0, email |-> <<>>, locale |-> <<>>, tags |-> <<>>],
   segment |-> <<>>, decided |-> FALSE, match |-> FALSE]

\* INSERT INTO email_campaigns ...: counters and cursor at their defaults.
NewCampaign(segment, perHour, totalCap) ==
  [subject |-> "subject", html |-> "html",
   segment |-> segment, per_hour_limit |-> perHour, total_cap |-> totalCap,
   sent_count |-> 0, failed_count |-> 0, skipped_count |-> 0, since_id |-> 0,
   status |-> "active", last_run_at |-> NULL, lock_until |-> NULL]

InitWith(campaigns, registries) ==
  /\ \E c \in campaigns :
        row = NewCampaign(c.segment, c.per_hour_limit, c.total_cap)
  /\ unsubs \in registries
  /\ now = 0
  /\ started = 0
  /\ pc = [p \in Procs |-> "idle"]
  /\ camp = [p \in Procs |-> NoCamp]
  /\ since = [p \in Procs |-> 0]
  /\ toSend = [p \in Procs |-> <<>>]
  /\ idx = [p \in Procs |-> 0]
  /\ sent = [p \in Procs |-> 0]
  /\ failed = [p \in Procs |-> 0]
  /\ skipped = [p \in Procs |-> 0]
  /\ response = "none"
  /\ lease = [p \in Procs |-> NULL]
  /\ mailed = [c \in CustomerIds |-> 0]
  /\ http = HttpIdle
  /\ probe = NoProbe

\* A fresh campaign and an empty unsubscribes table.
Init == InitWith(Campaigns, {{}})


(***************************************************************************)
(* Lock helpers.                                                           *)
(***************************************************************************)
\* Mutant: the UPDATE without its lock_until condition.
lockIsFreeAlways(r, t) == TRUE

\* Mutant: only a released lock can be taken.
lockIsFreeOnlyNull(r, t) == r.lock_until = NULL

\* WHERE ... AND (lock_until IS NULL OR lock_until < datetime('now'))
lockIsFree(r, t) == r.lock_until = NULL \/ r.lock_until < t

\* UPDATE email_campaigns SET lock_until = datetime('now', '+240 seconds')
acquireCampaignLock(r, t) ==
  IF lockIsFree(r, t) THEN [r EXCEPT !.lock_until = t + Lease] ELSE r

\* Mutant: the release UPDATE is not issued.
releaseSkipped(r) == r

\* Mutant: the release also closes the campaign.
releaseAndMarkDone(r) == [r EXCEPT !.lock_until = NULL, !.status = "done"]

\* UPDATE email_campaigns SET lock_until = NULL
releaseCampaignLock(r) == [r EXCEPT !.lock_until = NULL]

(***************************************************************************)
(* Directory client and registry lookups.                                  *)
(***************************************************************************)
\* customers.json?limit=min(limit || 250, 250)&since_id=...: ascending ids
fetchShopifyCustomers(limit, since_id) ==
  LET n     == Min(IF limit = 0 THEN 250 ELSE limit, 250)
      after == SelectSeq(Directory, LAMBDA c : c.id > since_id)
  IN SubSeq(after, 1, Min(n, Len(after)))

\* Mutant: the lookup never finds the address.
isUnsubscribedNever(email) == FALSE

\* db.get(SELECT 1 FROM unsubscribes WHERE email = normEmail(email))
isUnsubscribed(email) == normEmail(email) \in unsubs

(***************************************************************************)
(* The runner's computations.                                              *)
(***************************************************************************)
\* Number(camp.per_hour_limit || 500), Number(camp.total_cap || 100000)
perHourOf(c) == IF c.per_hour_limit = 0 THEN 500 ELSE c.per_hour_limit
totalCapOf(c) == IF c.total_cap = 0 THEN 100000 ELSE c.total_cap

\* Mutant: the loop test without the total cap.
whileCondNoCap(ts, c) == Len(ts) < perHourOf(c)

\* Mutant: the loop test without the per-invocation limit.
whileCondNoLimit(ts, c) == c.sent_count + Len(ts) < totalCapOf(c)

\* while (toSend.length < perHour && (camp.sent_count + toSend.length) < totalCap)
whileCond(ts, c) ==
  Len(ts) < perHourOf(c) /\ c.sent_count + Len(ts) < totalCapOf(c)

\* if (toSend.length >= perHour || (camp.sent_count + toSend.length) >= totalCap) break
batchBreak(ts, c) ==
  Len(ts) >= perHourOf(c) \/ c.sent_count + Len(ts) >= totalCapOf(c)

\* for (const c of batch) { ... }: from position k of the batch onwards
RECURSIVE collectBatch(_, _, _, _)
collectBatch(batch, k, ts, c) ==
  IF k > Len(batch) THEN ts
  ELSE LET cust == batch[k] IN
       IF cust.email = <<>> THEN collectBatch(batch, k + 1, ts, c)
       ELSE IF ~matchesSegment(cust, c) THEN collectBatch(batch, k + 1, ts, c)
       ELSE LET ts2 == Append(ts, [id |-> cust.id, email |-> normEmail(cust.email)])
            IN IF batchBreak(ts2, c) THEN ts2
               ELSE collectBatch(batch, k + 1, ts2, c)

\* The whole collection loop of one invocation, from cursor sn.
RECURSIVE collectLoop(_, _, _)
collectLoop(ts, sn, c) ==
  IF ~whileCond(ts, c) THEN [toSend |-> ts, since |-> sn]
  ELSE LET batch == fetchShopifyCustomers(perHourOf(c) - Len(ts), sn)
       IN IF batch = <<>> THEN [toSend |-> ts, since |-> sn]
          ELSE collectLoop(collectBatch(batch, 1, ts, c), batch[Len(batch)].id, c)

\* Mutant: the total leaves out what earlier invocations sent.
newSentOnlyThisRun(c, n) == n

newSentOf(c, n) == c.sent_count + n
newFailedOf(c, n) == c.failed_count + n
\* Mutant: the skipped recipients of this invocation are not added.
newSkippedDropped(c, n) == c.skipped_count

newSkippedOf(c, n) == c.skipped_count + n

newStatusOf(c, s, f, k) ==
  IF s = 0 /\ f = 0 /\ k = 0 THEN "done"
  ELSE IF newSentOf(c, s) >= totalCapOf(c) THEN "done"
  ELSE "active"

\* Mutant: the terminal UPDATE without the cursor.
terminalUpdateKeepsCursor(r, c, sn, s, f, k, t) ==
  [r EXCEPT !.sent_count = c.sent_count + s,
            !.failed_count = c.failed_count + f,
            !.skipped_count = c.skipped_count + k,
            !.status = IF s = 0 /\ f = 0 /\ k = 0 THEN "done" ELSE "active",
            !.last_run_at = t,
            !.lock_until = NULL]

\* Mutant: the UPDATE also lowers total_cap to what has been sent.
terminalUpdateShrinksCap(r, c, sn, s, f, k, t) ==
  [r EXCEPT !.sent_count = c.sent_count + s,
            !.failed_count = c.failed_count + f,
            !.skipped_count = c.skipped_count + k,
            !.since_id = sn,
            !.status = IF s = 0 /\ f = 0 /\ k = 0 THEN "done" ELSE "active",
            !.total_cap = c.sent_count + s,
            !.last_run_at = t,
            !.lock_until = NULL]

\* UPDATE email_campaigns SET sent_count = ?, failed_count = ?, skipped_count = ?,
\*   since_id = ?, status = ?, last_run_at = datetime('now'), lock_until = NULL
terminalUpdate(r, c, sn, s, f, k, t) ==
  [r EXCEPT !.sent_count = newSentOf(c, s),
            !.failed_count = newFailedOf(c, f),
            !.skipped_count = newSkippedOf(c, k),
            !.since_id = sn,
            !.status = newStatusOf(c, s, f, k),
            !.last_run_at = t,
            !.lock_until = NULL]

\* Mutant: the status check dropped.
isActiveAlways(c) == TRUE

\* if (camp.status !== 'active') return ...
isActive(c) == c.status = "active"

\* The columns of SELECT * that the handler reads.
Snapshot(r) ==
  [status |-> r.status, per_hour_limit |-> r.per_hour_limit,
   total_cap |-> r.total_cap, since_id |-> r.since_id,
   sent_count |-> r.sent_count, failed_count |-> r.failed_count,
   skipped_count |-> r.skipped_count, segment |-> r.segment]


(***************************************************************************)
(* One invocation of GET /admin/campaign/run, step by step.  Each action   *)
(* is one database or network completion together with the synchronous     *)
(* code that runs up to the next await.                                    *)
(*   idle -> lock -> fetch* -> (send -> mail)* -> commit -> idle           *)
(*                     \-> release -> idle                                 *)
(***************************************************************************)
InFlight == {"lock", "fetch", "send", "mail", "commit", "release"}

\* Between a successful acquire and the invocation's own UPDATE of the row.
Critical == {"fetch", "send", "mail", "commit", "release"}

\* The handler returns: its locals are gone.
Forget(p) ==
  /\ camp' = [camp EXCEPT ![p] = NoCamp]
  /\ since' = [since EXCEPT ![p] = 0]
  /\ toSend' = [toSend EXCEPT ![p] = <<>>]
  /\ idx' = [idx EXCEPT ![p] = 0]
  /\ sent' = [sent EXCEPT ![p] = 0]
  /\ failed' = [failed EXCEPT ![p] = 0]
  /\ skipped' = [skipped EXCEPT ![p] = 0]
  /\ lease' = [lease EXCEPT ![p] = NULL]

\* res.json({ ok: true, id, attempted, sent, failed, skipped, since_id,
\* total_sent, status }): the body invocation p answers with once its send
\* loop has ended, from its locals.
successResult(p) ==
  [ok |-> TRUE, attempted |-> Len(toSend[p]), sent |-> sent[p],
   failed |-> failed[p], skipped |-> skipped[p], since_id |-> since[p],
   total_sent |-> newSentOf(camp[p], sent[p]),
   status |-> newStatusOf(camp[p], sent[p], failed[p], skipped[p])]

\* res.status(500).json({ ok: false, error: 'run failed' }): the catch.
failureResult == [ok |-> FALSE, error |-> "run failed"]

\* The body invocation p has answered with: the success result when its
\* terminal UPDATE is pending, the failure result when its release is.
answerOf(p) == IF pc[p] = "release" THEN failureResult ELSE successResult(p)

\* End of the collection loop: the send loop starts, or, with nothing to
\* send, the terminal UPDATE is issued and the JSON result returned.
EndCollect(p, ts) ==
  IF Len(ts) > 0
  THEN /\ pc' = [pc EXCEPT ![p] = "send"]
       /\ idx' = [idx EXCEPT ![p] = 1]
       /\ UNCHANGED response
  ELSE /\ pc' = [pc EXCEPT ![p] = "commit"]
       /\ response' = "ok"
       /\ UNCHANGED idx

\* Mutant: the send loop stops after the recipient in hand.
AbortBatch(p) ==
  /\ idx' = [idx EXCEPT ![p] = idx[p] + 1]
  /\ pc' = [pc EXCEPT ![p] = "commit"]
  /\ response' = "ok"

\* Next recipient of the send loop, or the terminal UPDATE after the last.
NextRecipient(p) ==
  /\ idx' = [idx EXCEPT ![p] = idx[p] + 1]
  /\ IF idx[p] + 1 <= Len(toSend[p])
     THEN /\ pc' = [pc EXCEPT ![p] = "send"]
          /\ UNCHANGED response
     ELSE /\ pc' = [pc EXCEPT ![p] = "commit"]
          /\ response' = "ok"

\* db.get(SELECT * ...): the status check.
Load(p) ==
  /\ pc[p] = "idle"
  /\ started < MaxRuns
  /\ started' = started + 1
  /\ IF ~isActive(Snapshot(row))
     THEN /\ response' = "notactive"
          /\ UNCHANGED <<pc, camp>>
     ELSE /\ pc' = [pc EXCEPT ![p] = "lock"]
          /\ camp' = [camp EXCEPT ![p] = Snapshot(row)]
          /\ UNCHANGED response
  /\ UNCHANGED <<row, unsubs, now, since, toSend, idx, sent, failed, skipped,
                 lease, mailed>>
  /\ UNCHANGED <<http, probe>>

\* db.get answers with an error: 500 'DB error'.
LoadFail(p) ==
  /\ pc[p] = "idle"
  /\ started < MaxRuns
  /\ started' = started + 1
  /\ response' = "dberror"
  /\ UNCHANGED <<row, unsubs, now, pc, locals, lease, mailed>>
  /\ UNCHANGED <<http, probe>>

\* await acquireCampaignLock(id), then the locals and the first loop test.
Acquire(p) ==
  /\ pc[p] = "lock"
  /\ row' = acquireCampaignLock(row, now)
  /\ IF lockIsFree(row, now)
     THEN /\ lease' = [lease EXCEPT ![p] = now + Lease]
          /\ since' = [since EXCEPT ![p] = camp[p].since_id]
          /\ IF whileCond(<<>>, camp[p])
             THEN /\ pc' = [pc EXCEPT ![p] = "fetch"]
                  /\ UNCHANGED response
             ELSE /\ pc' = [pc EXCEPT ![p] = "commit"]
                  /\ response' = "ok"
          /\ UNCHANGED <<camp, toSend, idx, sent, failed, skipped>>
     ELSE /\ pc' = [pc EXCEPT ![p] = "idle"]
          /\ response' = "locked"
          /\ Forget(p)
  /\ UNCHANGED <<unsubs, now, started, mailed>>
  /\ UNCHANGED <<http, probe>>

\* The lock UPDATE fails: resolve(false), answered like a held lock.
AcquireFail(p) ==
  /\ pc[p] = "lock"
  /\ pc' = [pc EXCEPT ![p] = "idle"]
  /\ response' = "lockerror"
  /\ Forget(p)
  /\ UNCHANGED <<row, unsubs, now, started, mailed>>
  /\ UNCHANGED <<http, probe>>

\* await fetchShopifyCustomers(...) answers; the page is filtered.
Fetch(p) ==
  /\ pc[p] = "fetch"
  /\ LET batch == fetchShopifyCustomers(perHourOf(camp[p]) - Len(toSend[p]), since[p])
     IN IF batch = <<>>
        THEN /\ EndCollect(p, toSend[p])
             /\ UNCHANGED <<since, toSend>>
        ELSE LET ts == collectBatch(batch, 1, toSend[p], camp[p])
             IN /\ since' = [since EXCEPT ![p] = batch[Len(batch)].id]
                /\ toSend' = [toSend EXCEPT ![p] = ts]
                /\ IF whileCond(ts, camp[p])
                   THEN UNCHANGED <<pc, idx, response>>
                   ELSE EndCollect(p, ts)
  /\ UNCHANGED <<row, unsubs, now, started, camp, sent, failed, skipped,
                 lease, mailed>>
  /\ UNCHANGED <<http, probe>>

\* fetchShopifyCustomers throws: catch, releaseCampaignLock is issued, 500.
FetchFail(p) ==
  /\ pc[p] = "fetch"
  /\ pc' = [pc EXCEPT ![p] = "release"]
  /\ response' = "failed"
  /\ UNCHANGED <<row, unsubs, now, started, locals, lease, mailed>>
  /\ UNCHANGED <<http, probe>>

\* await isUnsubscribed(cust.email) answers.
CheckUnsub(p) ==
  /\ pc[p] = "send"
  /\ IF isUnsubscribed(toSend[p][idx[p]].email)
     THEN /\ skipped' = [skipped EXCEPT ![p] = skipped[p] + 1]
          /\ NextRecipient(p)
     ELSE /\ pc' = [pc EXCEPT ![p] = "mail"]
          /\ UNCHANGED <<skipped, idx, response>>
  /\ UNCHANGED <<row, unsubs, now, started, camp, since, toSend, sent, failed,
                 lease, mailed>>
  /\ UNCHANGED <<http, probe>>

\* isUnsubscribed rejects (database error): the outer catch.
CheckUnsubFail(p) ==
  /\ pc[p] = "send"
  /\ pc' = [pc EXCEPT ![p] = "release"]
  /\ response' = "failed"
  /\ UNCHANGED <<row, unsubs, now, started, locals, lease, mailed>>
  /\ UNCHANGED <<http, probe>>

\* await mailer.sendMail(...) resolves, then the 20 ms pause.
MailSent(p) ==
  /\ pc[p] = "mail"
  /\ mailed' = [mailed EXCEPT ![toSend[p][idx[p]].id] = @ + 1]
  /\ sent' = [sent EXCEPT ![p] = sent[p] + 1]
  /\ NextRecipient(p)
  /\ UNCHANGED <<row, unsubs, now, started, camp, since, toSend, failed,
                 skipped, lease>>
  /\ UNCHANGED <<http, probe>>

\* await mailer.sendMail(...) rejects: counted, the loop goes on.
MailFailed(p) ==
  /\ pc[p] = "mail"
  /\ mailed' = [mailed EXCEPT ![toSend[p][idx[p]].id] = @ + 1]
  /\ failed' = [failed EXCEPT ![p] = failed[p] + 1]
  /\ NextRecipient(p)
  /\ UNCHANGED <<row, unsubs, now, started, camp, since, toSend, sent,
                 skipped, lease>>
  /\ UNCHANGED <<http, probe>>

\* The terminal UPDATE runs.
Commit(p) ==
  /\ pc[p] = "commit"
  /\ row' = terminalUpdate(row, camp[p], since[p], sent[p], failed[p], skipped[p], now)
  /\ pc' = [pc EXCEPT ![p] = "idle"]
  /\ Forget(p)
  /\ UNCHANGED <<unsubs, now, started, response, mailed>>
  /\ UNCHANGED <<http, probe>>

\* A variant in which the failed UPDATE has stored the counters and cursor.
CommitFailHalfWritten(p) ==
  /\ pc[p] = "commit"
  /\ row' = [row EXCEPT !.sent_count = newSentOf(camp[p], sent[p]),
                        !.skipped_count = newSkippedOf(camp[p], skipped[p]),
                        !.since_id = since[p]]
  /\ pc' = [pc EXCEPT ![p] = "idle"]
  /\ Forget(p)
  /\ UNCHANGED <<unsubs, now, started, response, mailed>>
  /\ UNCHANGED <<http, probe>>

\* The terminal UPDATE fails (uErr is only logged).
CommitFail(p) ==
  /\ pc[p] = "commit"
  /\ pc' = [pc EXCEPT ![p] = "idle"]
  /\ Forget(p)
  /\ UNCHANGED <<row, unsubs, now, started, response, mailed>>
  /\ UNCHANGED <<http, probe>>

\* The UPDATE issued by releaseCampaignLock runs.
Release(p) ==
  /\ pc[p] = "release"
  /\ row' = releaseCampaignLock(row)
  /\ pc' = [pc EXCEPT ![p] = "idle"]
  /\ Forget(p)
  /\ UNCHANGED <<unsubs, now, started, response, mailed>>
  /\ UNCHANGED <<http, probe>>

\* The server process dies while the invocation is paging or sending.
Crash(p) ==
  /\ pc[p] \in {"fetch", "send", "mail"}
  /\ pc' = [pc EXCEPT ![p] = "idle"]
  /\ response' = "crashed"
  /\ Forget(p)
  /\ UNCHANGED <<row, unsubs, now, started, mailed>>
  /\ UNCHANGED <<http, probe>>

\* GET /u: INSERT OR IGNORE INTO unsubscribes (email) VALUES (normEmail(e))
Unsubscribe(e) ==
  /\ normEmail(e) \notin unsubs
  /\ unsubs' = unsubs \cup {normEmail(e)}
  /\ UNCHANGED <<row, now, started, pc, locals, response, lease, mailed>>
  /\ UNCHANGED <<http, probe>>

\* Time passes.  The code compares the clock only with lock_until, so the
\* clock is observed at instants one lease and a minute apart.
Tick ==
  /\ now + Lease + 1 <= MaxTime
  /\ now' = now + Lease + 1
  /\ UNCHANGED <<row, unsubs, started, pc, locals, response, lease, mailed>>
  /\ UNCHANGED <<http, probe>>

Next ==
  \/ \E p \in Procs : Load(p)
  \/ \E p \in Procs : LoadFail(p)
  \/ \E p \in Procs : Acquire(p)
  \/ \E p \in Procs : AcquireFail(p)
  \/ \E p \in Procs : Fetch(p)
  \/ \E p \in Procs : FetchFail(p)
  \/ \E p \in Procs : CheckUnsub(p)
  \/ \E p \in Procs : CheckUnsubFail(p)
  \/ \E p \in Procs : MailSent(p)
  \/ \E p \in Procs : MailFailed(p)
  \/ \E p \in Procs : Commit(p)
  \/ \E p \in Procs : CommitFail(p)
  \/ \E p \in Procs : Release(p)
  \/ \E p \in Procs : Crash(p)
  \/ \E e \in UnsubLinks : Unsubscribe(e)
  \/ Tick

Spec == Init /\ [][Next]_vars

(***************************************************************************)
(* Sequential, failure-free operation: an invocation is launched only when *)
(* no other is running, no call fails, and the unsubscribes table is fixed *)
(* from the start.                                                         *)
(***************************************************************************)
AllIdle == \A p \in Procs : pc[p] = "idle"

SeqCampaigns ==
  [segment : Segments, per_hour_limit : PerHourChoices, total_cap : TotalCapChoices]

SeqRegistries == SUBSET { <<"a","@","x">>, <<"c","@","x">> }

SeqInit == InitWith(SeqCampaigns, SeqRegistries)

SeqLoad(p) == AllIdle /\ Load(p)

SeqNext ==
  \/ \E p \in Procs : SeqLoad(p)
  \/ \E p \in Procs : Acquire(p)
  \/ \E p \in Procs : Fetch(p)
  \/ \E p \in Procs : CheckUnsub(p)
  \/ \E p \in Procs : MailSent(p)
  \/ \E p \in Procs : Commit(p)
  \/ Tick

SeqSpec == SeqInit /\ [][SeqNext]_vars

(***************************************************************************)
(* Sequential, failure-free operation on a campaign that is already under  *)
(* way: the row found in the table carries progress of earlier runs        *)
(* (sent_count up to total_cap, a cursor inside the directory) and status  *)
(* 'active'.                                                               *)
(***************************************************************************)
SinceChoices == {0, 2}

QuotaRows ==
  UNION { { [NewCampaign(c.segment, c.per_hour_limit, c.total_cap)
               EXCEPT !.sent_count = s, !.since_id = k] :
              s \in {0, c.total_cap - 1, c.total_cap}, k \in SinceChoices } :
          c \in SeqCampaigns }

QuotaInit ==
  /\ row \in QuotaRows
  /\ unsubs \in SeqRegistries
  /\ now = 0
  /\ started = 0
  /\ pc = [p \in Procs |-> "idle"]
  /\ camp = [p \in Procs |-> NoCamp]
  /\ since = [p \in Procs |-> 0]
  /\ toSend = [p \in Procs |-> <<>>]
  /\ idx = [p \in Procs |-> 0]
  /\ sent = [p \in Procs |-> 0]
  /\ failed = [p \in Procs |-> 0]
  /\ skipped = [p \in Procs |-> 0]
  /\ response = "none"
  /\ lease = [p \in Procs |-> NULL]
  /\ mailed = [c \in CustomerIds |-> 0]
  /\ http = HttpIdle
  /\ probe = NoProbe

QuotaSpec == QuotaInit /\ [][SeqNext]_vars

(***************************************************************************)
(* Crash recovery.  The scheduler keeps triggering the runner, the server  *)
(* may die while an invocation holds the lock, and no call fails           *)
(* otherwise.  A crash is followed by at least one more observed instant   *)
(* of the clock.                                                           *)
(***************************************************************************)
\* A trigger of the scheduler beyond the invocations that are counted.
Retrigger(p) ==
  /\ pc[p] = "idle"
  /\ started = MaxRuns
  /\ IF ~isActive(Snapshot(row))
     THEN /\ response' = "notactive"
          /\ UNCHANGED <<pc, camp>>
     ELSE /\ pc' = [pc EXCEPT ![p] = "lock"]
          /\ camp' = [camp EXCEPT ![p] = Snapshot(row)]
          /\ UNCHANGED response
  /\ UNCHANGED <<row, unsubs, now, started, since, toSend, idx, sent, failed,
                 skipped, lease, mailed>>
  /\ UNCHANGED <<http, probe>>

CrashEarly(p) == now + Lease + 1 <= MaxTime /\ Crash(p)

CrashNext ==
  \/ \E p \in Procs : Load(p)
  \/ \E p \in Procs : Retrigger(p)
  \/ \E p \in Procs : Acquire(p)
  \/ \E p \in Procs : Fetch(p)
  \/ \E p \in Procs : CheckUnsub(p)
  \/ \E p \in Procs : MailSent(p)
  \/ \E p \in Procs : Commit(p)
  \/ \E p \in Procs : CrashEarly(p)
  \/ Tick

\* The clock advances, the scheduler triggers again whenever no request of
\* its slot is in progress, and the lock UPDATE of a request is answered.
CrashFairness ==
  /\ WF_vars(Tick)
  /\ \A p \in Procs : WF_vars(Load(p) \/ Retrigger(p))
  /\ \A p \in Procs : WF_vars(Acquire(p))

CrashSpec == Init /\ [][CrashNext]_vars /\ CrashFairness

(***************************************************************************)
(* Invocations that run to completion: the server does not die, the        *)
(* database answers every statement, and every awaited call is answered,   *)
(* successfully or with an error.                                          *)
(***************************************************************************)
Step(p) ==
  \/ Acquire(p)
  \/ FetchFail(p)
  \/ Fetch(p)
  \/ CheckUnsub(p)
  \/ CheckUnsubFail(p)
  \/ MailSent(p)
  \/ MailFailed(p)
  \/ Commit(p)
  \/ Release(p)

CompleteNext ==
  \/ \E p \in Procs : Load(p)
  \/ \E p \in Procs : Acquire(p)
  \/ \E p \in Procs : Fetch(p)
  \/ \E p \in Procs : FetchFail(p)
  \/ \E p \in Procs : CheckUnsub(p)
  \/ \E p \in Procs : CheckUnsubFail(p)
  \/ \E p \in Procs : MailSent(p)
  \/ \E p \in Procs : MailFailed(p)
  \/ \E p \in Procs : Commit(p)
  \/ \E p \in Procs : Release(p)
  \/ Tick

CompleteSpec ==
  Init /\ [][CompleteNext]_vars /\ \A p \in Procs : WF_vars(Step(p))

(***************************************************************************)
(* The directory client: one call of fetchShopifyCustomers, which goes     *)
(* through shopifyFetchWithRetry.  Time is counted in milliseconds here.   *)
(* The server answers each request with a status and, possibly, a          *)
(* Retry-After header (0: absent, unreadable or zero).                     *)
(***************************************************************************)
maxRetries == 6
PaceFirst == 600
PaceRetry == 200
BackoffCap == 5000

Statuses == {200, 429, 500}
Hints == {0, 1, 2, 7}
LimitChoices == {1, 2}
CursorChoices == {0, 2, 4}

runnerVars == <<row, unsubs, now, started, pc, camp, since, toSend, idx, sent,
                failed, skipped, response, lease, mailed>>

\* Mutant: every answer but 200 is tried again.
isNotOk(status) == status # 200

\* if (r.status !== 429) return r
isRateLimited(status) == status = 429

\* Mutant: the attempts are not bounded.
retriesNeverExhausted(attempt) == FALSE

\* if (attempt > maxRetries) return r
retriesExhausted(attempt) == attempt > maxRetries

\* Mutant: a retry asks for the next records.
requestUrlAdvanced(url, attempt) == [url EXCEPT !.since_id = @ + attempt]

\* f(url, opts): the url built once by fetchShopifyCustomers
requestUrl(url, attempt) == url

\* Number(r.headers.get('Retry-After')) || 1
retryAfterOf(hint) == IF hint = 0 THEN 1 ELSE hint

\* Math.min(5000, retryAfter * 1000 * attempt)
backoffMs(hint, attempt) == Min(BackoffCap, retryAfterOf(hint) * 1000 * attempt)

\* r.ok
isOk(status) == status >= 200 /\ status <= 299

\* fetchShopifyCustomers({limit, since_id}) is called.
CallFetch(limit, since_id) ==
  /\ http.pc = "idle"
  /\ http' = [HttpIdle EXCEPT !.pc = "pace",
                              !.url = [limit |-> limit, since_id |-> since_id]]
  /\ UNCHANGED <<runnerVars, probe>>

\* The pacing sleep at the head of the loop, then the request is issued.
Pace ==
  /\ http.pc = "pace"
  /\ http' = [http EXCEPT
                !.pc = "request",
                !.slept = @ + (IF http.attempt > 0 THEN PaceRetry ELSE PaceFirst),
                !.requests = @ + 1,
                !.asked = @ \cup {requestUrl(http.url, http.attempt)}]
  /\ UNCHANGED <<runnerVars, probe>>

\* The server answers; shopifyFetchWithRetry returns the response or goes on
\* to its backoff, and fetchShopifyCustomers throws on a response not ok.
Answer(status, hint) ==
  /\ http.pc = "request"
  /\ LET attempt == http.attempt + 1
         url     == requestUrl(http.url, http.attempt)
         final   == [http EXCEPT
                       !.pc = "done", !.status = status, !.hint = hint,
                       !.slept = 0,
                       !.outcome = IF isOk(status) THEN "records" ELSE "throw",
                       !.records = IF isOk(status)
                                   THEN fetchShopifyCustomers(url.limit, url.since_id)
                                   ELSE <<>>]
     IN IF ~isRateLimited(status) THEN http' = final
        ELSE IF retriesExhausted(attempt)
             THEN http' = [final EXCEPT !.attempt = attempt]
             ELSE http' = [http EXCEPT !.pc = "backoff", !.status = status,
                                       !.hint = hint, !.slept = 0,
                                       !.attempt = attempt]
  /\ UNCHANGED <<runnerVars, probe>>

\* f(url, opts) rejects (no response at all): the rejection propagates.
NetworkError ==
  /\ http.pc = "request"
  /\ http' = [http EXCEPT !.pc = "done", !.status = 0, !.hint = 0, !.slept = 0,
                          !.outcome = "throw"]
  /\ UNCHANGED <<runnerVars, probe>>

\* await sleep(Math.min(5000, retryAfter * 1000 * attempt))
Backoff ==
  /\ http.pc = "backoff"
  /\ http' = [http EXCEPT !.pc = "pace",
                          !.slept = backoffMs(http.hint, http.attempt)]
  /\ UNCHANGED <<runnerVars, probe>>

RetryInit ==
  /\ row = NewCampaign(<<>>, 2, 4)
  /\ unsubs = {}
  /\ now = 0
  /\ started = 0
  /\ pc = [p \in Procs |-> "idle"]
  /\ camp = [p \in Procs |-> NoCamp]
  /\ since = [p \in Procs |-> 0]
  /\ toSend = [p \in Procs |-> <<>>]
  /\ idx = [p \in Procs |-> 0]
  /\ sent = [p \in Procs |-> 0]
  /\ failed = [p \in Procs |-> 0]
  /\ skipped = [p \in Procs |-> 0]
  /\ response = "none"
  /\ lease = [p \in Procs |-> NULL]
  /\ mailed = [c \in CustomerIds |-> 0]
  /\ http = HttpIdle
  /\ probe = NoProbe

RetryNext ==
  \/ \E limit \in LimitChoices, since_id \in CursorChoices : CallFetch(limit, since_id)
  \/ Pace
  \/ \E status \in Statuses, hint \in Hints : Answer(status, hint)
  \/ NetworkError
  \/ Backoff

\* Every sleep ends and every request is answered or rejected.
RetrySpec == RetryInit /\ [][RetryNext]_vars /\ WF_vars(RetryNext)

(***************************************************************************)
(* Repeated sequential, failure-free invocations: the scheduler triggers   *)
(* the runner again whenever no invocation is in progress, and every       *)
(* awaited call is answered.  The campaigns include one whose segment      *)
(* matches no customer of the directory.                                   *)
(***************************************************************************)
NoMatchSegment == <<"d","e">>

DrainCampaigns ==
  SeqCampaigns \cup {[segment |-> NoMatchSegment, per_hour_limit |-> 1, total_cap |-> 4]}

DrainInit == InitWith(DrainCampaigns, SeqRegistries)

SeqRetrigger(p) == AllIdle /\ Retrigger(p)

Trigger == \E p \in Procs : SeqLoad(p) \/ SeqRetrigger(p)

DrainNext ==
  \/ \E p \in Procs : SeqLoad(p)
  \/ \E p \in Procs : SeqRetrigger(p)
  \/ \E p \in Procs : Acquire(p)
  \/ \E p \in Procs : Fetch(p)
  \/ \E p \in Procs : CheckUnsub(p)
  \/ \E p \in Procs : MailSent(p)
  \/ \E p \in Procs : Commit(p)
  \/ Tick

DrainSpec ==
  /\ DrainInit
  /\ [][DrainNext]_vars
  /\ WF_vars(Trigger)
  /\ \A p \in Procs : WF_vars(Step(p))

(***************************************************************************)
(* The segmentation decision of the collection loop, taken on customers    *)
(* and segments drawn from small sets of locales, tag lists and segments.  *)
(***************************************************************************)
ProbeLocales ==
  { <<>>,
    <<"e","n">>,
    <<"e","n","-","G","B">>,
    <<"e","n","_","G","B">>,
    <<"f","r">>,
    <<"E","N","-","u","s">>,
    <<" ","e","n"," ">> }

ProbeTags ==
  { <<>>,
    <<"e","n">>,
    <<"l","a","n","g","-","e","n">>,
    <<"v","i","p">>,
    <<"e","n","_","U","S">>,
    <<"f","r","-","C","A",","," ","v","i","p">>,
    <<"l","a","n","g","-","f","r",",","l","a","n","g","-","e","n">>,
    <<"L","a","n","g","-","E","N",","," ","g","b">> }

\* Segments as POST /admin/campaign/create stores them (trimmed, lower-case,
\* '_' replaced by '-'; '' stored as NULL).
ProbeSegments ==
  { <<>>,
    <<"e","n">>,
    <<"e","n","-","g","b">>,
    <<"f","r">>,
    <<"v","i","p">>,
    <<"l","a","n","g","-","e","n">>,
    <<"e","n","-","u","s">> }

\* One pass of the body of 'for (const c of batch)' up to the segment test.
Decide(locale, tags, segment) ==
  /\ LET c == [id |-> 1, email |-> <<"a","@","x">>, locale |-> locale, tags |-> tags]
     IN probe' = [cust |-> c, segment |-> segment, decided |-> TRUE,
                  match |-> matchesSegment(c, [segment |-> segment])]
  /\ UNCHANGED <<runnerVars, http>>

SegNext ==
  \E locale \in ProbeLocales, tags \in ProbeTags, segment \in ProbeSegments :
     Decide(locale, tags, segment)

SegSpec == RetryInit /\ [][SegNext]_vars

(***************************************************************************)
(* Sequential invocations whose terminal UPDATE may fail; every other call *)
(* succeeds.                                                               *)
(***************************************************************************)
CommitFailNext ==
  \/ SeqNext
  \/ \E p \in Procs : CommitFail(p)

CommitFailSpec == SeqInit /\ [][CommitFailNext]_vars

(***************************************************************************)
(* Sequential, failure-free invocations while an administrator may set the *)
(* status of the campaign to 'paused' or 'cancelled' directly in the       *)
(* table (no endpoint of the server does it).                              *)
(***************************************************************************)
AdminStatuses == {"paused", "cancelled"}

AdminSetStatus(st) ==
  /\ row.status = "active"
  /\ row' = [row EXCEPT !.status = st]
  /\ UNCHANGED <<unsubs, now, started, pc, locals, response, lease, mailed,
                 http, probe>>

PauseNext ==
  \/ \E p \in Procs : SeqLoad(p)
  \/ \E p \in Procs : Acquire(p)
  \/ \E p \in Procs : Fetch(p)
  \/ \E p \in Procs : CheckUnsub(p)
  \/ \E p \in Procs : MailSent(p)
  \/ \E p \in Procs : Commit(p)
  \/ \E st \in AdminStatuses : AdminSetStatus(st)
  \/ Tick

PauseSpec == SeqInit /\ [][PauseNext]_vars

(***************************************************************************)
(* Overlapping invocations none of which fails or crashes, with the clock  *)
(* moving only while no invocation holds the lock.                         *)
(***************************************************************************)
QuietTick == (\A p \in Procs : pc[p] \notin Critical) /\ Tick

OverlapNext ==
  \/ \E p \in Procs : Load(p)
  \/ \E p \in Procs : Acquire(p)
  \/ \E p \in Procs : Fetch(p)
  \/ \E p \in Procs : CheckUnsub(p)
  \/ \E p \in Procs : MailSent(p)
  \/ \E p \in Procs : MailFailed(p)
  \/ \E p \in Procs : Commit(p)
  \/ QuietTick

OverlapSpec == Init /\ [][OverlapNext]_vars

(***************************************************************************)
(* Invocations without failures, each started only after every earlier one *)
(* has sent its answer (its terminal UPDATE may still be in the database   *)
(* queue: db.run returns at once and res.json follows it).                 *)
(***************************************************************************)
Answered(p) == pc[p] \in {"idle", "commit"}

LoadAfterAnswer(q) == (\A p \in Procs : Answered(p)) /\ Load(q)

AnsweredNext ==
  \/ \E p \in Procs : LoadAfterAnswer(p)
  \/ \E p \in Procs : Acquire(p)
  \/ \E p \in Procs : Fetch(p)
  \/ \E p \in Procs : CheckUnsub(p)
  \/ \E p \in Procs : MailSent(p)
  \/ \E p \in Procs : Commit(p)
  \/ Tick

AnsweredSpec == SeqInit /\ [][AnsweredNext]_vars


(***************************************************************************)
(* Properties.                                                             *)
(***************************************************************************)
\* Invocation p is between its successful acquire and its own UPDATE of the
\* row, and the lease it wrote has not expired.
HoldsLease(p) == pc[p] \in Critical /\ lease[p] >= now

\* The lock UPDATE of invocation p executes in this step (and does not fail).
AcquireRuns(p) ==
  /\ pc[p] = "lock"
  /\ pc'[p] # "lock"
  /\ ~(pc'[p] = "idle" /\ response' = "lockerror")

C2_AtMostOneHolder ==
  \A p, q \in Procs : (HoldsLease(p) /\ HoldsLease(q)) => p = q

\* C3: the persisted sent_count never exceeds total_cap.
C3_SentWithinCap == row.sent_count <= row.total_cap

\* The cap is reached while another invocation, which read the row before
\* that commit, is still running.
C3_Witness ==
  /\ row.sent_count = row.total_cap
  /\ \E p \in Procs : pc[p] \in Critical /\ camp[p].sent_count < row.sent_count

\* C4: once the persisted sent_count equals total_cap the persisted status is
\* 'done', and the status stays 'done' in every later state.
C4_CapReachedStaysDone ==
  [][ /\ (row.sent_count = row.total_cap => row.status = "done")
      /\ ((row.sent_count = row.total_cap /\ row.status = "done")
            => row'.status = "done") ]_vars

\* C5: an invocation that issues its terminal commit has
\* sent + failed + skipped <= per_hour_limit.
C5_CountersWithinLimit ==
  \A p \in Procs :
    pc[p] = "commit" => sent[p] + failed[p] + skipped[p] <= camp[p].per_hour_limit

C5_Witness ==
  \E p \in Procs :
    /\ pc[p] = "commit"
    /\ sent[p] >= 1
    /\ failed[p] >= 1
    /\ sent[p] + failed[p] + skipped[p] = camp[p].per_hour_limit

\* C6: the persisted sum sent_count + failed_count + skipped_count never
\* decreases from one state to the next.
C6_ProgressNeverDecreases ==
  [][row'.sent_count + row'.failed_count + row'.skipped_count
       >= row.sent_count + row.failed_count + row.skipped_count]_vars

\* C7: the persisted cursor since_id never decreases.
C7_CursorNeverDecreases == [][row'.since_id >= row.since_id]_vars

\* C9: 'done' and 'cancelled' are terminal: once the persisted status is one
\* of them no step changes it.
C9_TerminalStatus ==
  [][row.status \in {"done", "cancelled"} => row'.status = row.status]_vars

\* C10: an invocation that loads a campaign whose status is not 'active' is a
\* no-op: it never reaches lock acquisition, paging or sending, hands nothing
\* to the mailer and leaves every field of the row unchanged.
C10_NotActiveIsNoOp ==
  [][ /\ (started' = started + 1 /\ row.status # "active")
        => /\ row' = row
           /\ pc' = pc
           /\ mailed' = mailed
           /\ response' \in {"notactive", "dberror"}
      /\ \A p \in Procs : pc'[p] \in InFlight => camp'[p].status = "active" ]_vars

C10_Witness ==
  /\ response = "notactive"
  /\ row.status = "done"
  /\ \A p \in Procs : pc[p] = "idle"


\* The recipients one invocation with an unbounded per-invocation limit hands
\* to the mailer, for the campaign of the row started from cursor 0.
UnboundedLimit == Len(Directory) + 1

OneInvocation ==
  collectLoop(<<>>, 0, [Snapshot(NewCampaign(row.segment, UnboundedLimit, row.total_cap))
                          EXCEPT !.status = "active"]).toSend

OneInvocationRecipients ==
  {OneInvocation[i].id : i \in {j \in 1..Len(OneInvocation) :
                                   ~isUnsubscribed(OneInvocation[j].email)}}

CapNotReached == Len(OneInvocation) < row.total_cap

\* C8: for a fixed directory, segment and suppression set, no failures and a
\* total cap that is not reached, sequential invocations with a finite
\* per-invocation limit never hand a customer to the mailer twice nor one
\* that the single unbounded invocation would not mail, and when the campaign
\* is done they have mailed exactly the recipients of that one invocation.
C8_SameRecipients ==
  CapNotReached =>
    /\ \A c \in CustomerIds : mailed[c] <= 1
    /\ {c \in CustomerIds : mailed[c] >= 1} \subseteq OneInvocationRecipients
    /\ (row.status = "done" /\ AllIdle)
         => {c \in CustomerIds : mailed[c] >= 1} = OneInvocationRecipients

C8_Witness ==
  /\ CapNotReached
  /\ row.status = "done" /\ AllIdle
  /\ row.per_hour_limit = 1
  /\ started = 3
  /\ Cardinality(OneInvocationRecipients) = 2
  /\ \A c \in OneInvocationRecipients : mailed[c] = 1


\* The row's lock is held at this instant: lock_until is set and not in the past.
LockHeld == row.lock_until # NULL /\ row.lock_until >= now

\* C11: an invocation whose acquireCampaignLock returns false (the lock is
\* held, or the lock UPDATE failed) goes straight back to idle with the
\* 'already running' answer: it makes no directory call, hands nothing to the
\* mailer and leaves every field of the row, lock_until included, unchanged.
C11_LoserTouchesNothing ==
  [][\A p \in Procs :
       ( /\ pc[p] = "lock"
         /\ pc'[p] # "lock"
         /\ (LockHeld \/ pc'[p] = "idle") )
       => /\ pc'[p] = "idle"
          /\ response' \in {"locked", "lockerror"}
          /\ row' = row
          /\ mailed' = mailed
          /\ toSend'[p] = <<>>]_vars

\* A later invocation is turned away while the holder has already paged.
C11_Witness ==
  /\ response = "locked"
  /\ LockHeld
  /\ \E p, q \in Procs :
       /\ p # q
       /\ pc[p] = "idle"
       /\ pc[q] \in {"send", "mail"}
       /\ since[q] > row.since_id

\* The address of the recipient the send loop of p has reached is in the
\* unsubscribes table.
Suppressed(p) == normEmail(toSend[p][idx[p]].email) \in unsubs

\* C13: when the send loop reaches a recipient whose address is in the
\* unsubscribes table, the runner does not call mailer.sendMail for it; every
\* call of the mailer is for a recipient that was not in the table when the
\* loop reached it, and nothing is handed to the mailer outside such a call.
C13_SuppressedNeverMailed ==
  [][\A p \in Procs :
       /\ (pc[p] = "send" /\ Suppressed(p)) => pc'[p] # "mail"
       /\ (pc[p] = "send" /\ pc'[p] = "mail") => ~Suppressed(p)
       /\ \A c \in CustomerIds :
            mailed'[c] # mailed[c]
              => \E q \in Procs : pc[q] = "mail" /\ toSend[q][idx[q]].id = c]_vars

C13_Witness ==
  \E p \in Procs :
    /\ pc[p] = "commit"
    /\ skipped[p] = 1
    /\ sent[p] = 1
    /\ toSend[p][2].id = 4
    /\ mailed[4] = 0

LastId(batch) == batch[Len(batch)].id

\* C14: a suppressed recipient of the batch adds exactly one to skipped and
\* nothing to sent or failed; the invocation's cursor is the last record of
\* the page just fetched, which is at or beyond every recipient taken from
\* that page, it never moves back during the invocation, and the terminal
\* commit stores that cursor and the skipped count.
C14_SuppressedSkippedCursorPast ==
  [][\A p \in Procs :
       /\ (pc[p] = "send" /\ Suppressed(p) /\ idx'[p] = idx[p] + 1)
            => /\ skipped'[p] = skipped[p] + 1
               /\ sent'[p] = sent[p]
               /\ failed'[p] = failed[p]
       /\ (pc[p] = "fetch" /\ Len(toSend'[p]) > Len(toSend[p]))
            => /\ since'[p] = LastId(fetchShopifyCustomers(
                                 perHourOf(camp[p]) - Len(toSend[p]), since[p]))
               /\ \A i \in (Len(toSend[p]) + 1)..Len(toSend'[p]) :
                    toSend'[p][i].id <= since'[p]
       /\ (pc[p] \in Critical /\ pc'[p] \in Critical) => since'[p] >= since[p]
       /\ (pc[p] = "commit" /\ pc'[p] = "idle" /\ row' # row)
            => /\ row'.skipped_count = camp[p].skipped_count + skipped[p]
               /\ row'.since_id = since[p]
               /\ \A i \in 1..Len(toSend[p]) : toSend[p][i].id <= row'.since_id]_vars

C14_Witness ==
  /\ AllIdle
  /\ row.skipped_count = 1
  /\ row.sent_count = 1
  /\ row.since_id = 4
  /\ mailed[4] = 0
  /\ mailed[1] = 1


\* min(perInvocationLimit, totalCap - sentSoFar) of the snapshot c.
RemainingQuota(c) == Min(perHourOf(c), totalCapOf(c) - c.sent_count)

\* The customers after the cursor of c that have an address, pass the
\* segmentation and are not in the unsubscribes table.
EligibleAfter(c) ==
  {i \in 1..Len(Directory) :
     /\ Directory[i].id > c.since_id
     /\ Directory[i].email # <<>>
     /\ matchesSegment(Directory[i], c)
     /\ normEmail(Directory[i].email) \notin unsubs}

\* C15: suppressed customers do not use up the quota: an invocation that
\* finds at least RemainingQuota unsuppressed, segment-matching customers
\* after its cursor calls the mailer for exactly RemainingQuota recipients.
C15_QuotaOfUnsuppressed ==
  \A p \in Procs :
    ( /\ pc[p] = "commit"
      /\ Cardinality(EligibleAfter(camp[p])) >= RemainingQuota(camp[p]) )
    => sent[p] + failed[p] = RemainingQuota(camp[p])

\* C16: a failed directory fetch sends the invocation to the catch block
\* without touching the row, also after earlier pages were fetched; a fetched
\* page writes nothing to the row; and the release that follows clears
\* lock_until and leaves every other field of the row as it was.
C16_FetchFailureKeepsProgress ==
  [][\A p \in Procs :
       /\ (pc[p] = "fetch" /\ pc'[p] = "release")
            => (row' = row /\ response' = "failed" /\ mailed' = mailed)
       /\ (pc[p] = "fetch" /\ pc'[p] = "fetch" /\ since'[p] # since[p])
            => row' = row
       /\ (pc[p] = "release" /\ pc'[p] = "idle")
            => row' = [row EXCEPT !.lock_until = NULL]]_vars

\* The fetch of a second page has failed: a page was fetched and a recipient
\* collected, and the row still carries the cursor the invocation started from.
C16_Witness ==
  \E p \in Procs :
    /\ pc[p] = "release"
    /\ response = "failed"
    /\ idx[p] = 0
    /\ toSend[p] # <<>>
    /\ since[p] > camp[p].since_id
    /\ row.since_id = camp[p].since_id
    /\ row.lock_until = lease[p]

\* The loop of p has left the collection because a fetch returned no record:
\* the loop test still holds and nothing lies after the cursor.
Exhausted(p) ==
  /\ whileCond(toSend[p], camp[p])
  /\ fetchShopifyCustomers(perHourOf(camp[p]) - Len(toSend[p]), since[p]) = <<>>

\* C18: an invocation during which the directory is exhausted commits status
\* 'done' in that same invocation, also when it sent to some recipients.
C18_ExhaustedCommitsDone ==
  [][\A p \in Procs :
       (pc[p] = "commit" /\ pc'[p] = "idle" /\ Exhausted(p))
       => row'.status = "done"]_vars

\* C20: every answered send adds exactly one to sent or to failed, never
\* touches skipped, and the loop goes on with the next recipient or, after
\* the last, with the terminal commit; so at the terminal commit
\* sent + failed + skipped is the number of recipients of the batch.
C20_FailedSendIsolated ==
  /\ [][\A p \in Procs :
          (pc[p] = "mail" /\ pc'[p] \in {"send", "commit"})
          => /\ sent'[p] + failed'[p] = sent[p] + failed[p] + 1
             /\ sent'[p] >= sent[p]
             /\ failed'[p] >= failed[p]
             /\ skipped'[p] = skipped[p]
             /\ idx'[p] = idx[p] + 1
             /\ pc'[p] = IF idx[p] < Len(toSend[p]) THEN "send" ELSE "commit"]_vars
  /\ [](\A p \in Procs :
          pc[p] = "commit" => sent[p] + failed[p] + skipped[p] = Len(toSend[p]))

\* One of the two sends of the batch failed, the other succeeded, and the invocation
\* has performed its terminal commit.
C20_Witness ==
  /\ AllIdle
  /\ started = 1
  /\ row.failed_count = 1
  /\ row.sent_count = 1
  /\ row.skipped_count = 0
  /\ row.lock_until = NULL
  /\ row.since_id = 4


\* C19: an invocation that starts with RemainingQuota <= 0 goes from the lock
\* straight to its terminal commit, with no directory call and nothing
\* collected or mailed, and that commit writes status 'done' and leaves the
\* counters and the cursor at their prior values.
C19_NoQuotaFinalizesDone ==
  [][\A p \in Procs :
       /\ (pc[p] = "lock" /\ pc'[p] \in Critical /\ RemainingQuota(camp[p]) <= 0)
            => /\ pc'[p] = "commit"
               /\ toSend'[p] = <<>>
               /\ since'[p] = camp[p].since_id
               /\ mailed' = mailed
       /\ (pc[p] = "commit" /\ pc'[p] = "idle" /\ RemainingQuota(camp[p]) <= 0)
            => /\ row'.status = "done"
               /\ row'.sent_count = row.sent_count
               /\ row'.failed_count = row.failed_count
               /\ row'.skipped_count = row.skipped_count
               /\ row'.since_id = row.since_id
               /\ row'.lock_until = NULL
               /\ mailed' = mailed]_vars

C19_Witness ==
  /\ AllIdle
  /\ started = 1
  /\ row.status = "done"
  /\ row.sent_count = row.total_cap
  /\ row.since_id = 2
  /\ row.last_run_at # NULL
  /\ \A c \in CustomerIds : mailed[c] = 0


\* The server died while an invocation held the lock of an active campaign:
\* the lease is still in the row and no invocation is past lock acquisition.
CrashedHolding ==
  /\ response = "crashed"
  /\ row.status = "active"
  /\ LockHeld
  /\ \A p \in Procs : pc[p] \notin Critical

\* C12: a crash of the lock holder does not wedge the campaign: a lock
\* UPDATE that runs after the lease time has passed succeeds although the
\* lock was never released, and, with the scheduler triggering again and
\* again, a crash that leaves the lease in place is eventually followed by an
\* invocation that is past lock acquisition.
C12_CrashDoesNotWedge ==
  /\ [][\A p \in Procs :
          ( /\ pc[p] = "lock" /\ pc'[p] # "lock"
            /\ row.lock_until # NULL /\ row.lock_until < now )
          => (pc'[p] \in Critical /\ row'.lock_until = now + Lease)]_vars
  /\ (CrashedHolding ~> (\E p \in Procs : pc[p] \in Critical))

\* After a crash, an invocation has taken over the expired, unreleased lock.
C12_Witness ==
  /\ response = "crashed"
  /\ now > 0
  /\ \E p \in Procs :
       /\ pc[p] = "fetch"
       /\ lease[p] = now + Lease
       /\ row.lock_until = lease[p]
       /\ row.last_run_at = NULL

\* C17: an invocation that acquired the lock and runs to completion reaches
\* its end, and the step that ends it (the terminal UPDATE on the success
\* path, the release on the error path) leaves lock_until cleared.
C17_CompletedInvocationClearsLock ==
  /\ [][\A p \in Procs :
          (pc[p] \in {"commit", "release"} /\ pc'[p] = "idle")
          => row'.lock_until = NULL]_vars
  /\ \A p \in Procs : (pc[p] \in Critical) ~> (pc[p] = "idle")

\* An invocation has ended on the error path and the lock is clear.
C17_Witness ==
  /\ AllIdle
  /\ started = 1
  /\ response = "failed"
  /\ row.lock_until = NULL
  /\ row.last_run_at = NULL


\* C21: shopifyFetchWithRetry terminates whatever the server answers: it
\* issues at most maxRetries + 1 requests, all for the same url, and when
\* every answer is a 429 it stops after exactly maxRetries + 1 requests and
\* fetchShopifyCustomers throws instead of returning records.
C21_RetryTerminates ==
  /\ [](/\ http.requests <= maxRetries + 1
        /\ Cardinality(http.asked) <= 1
        /\ (http.pc = "done" /\ http.status = 429)
             => /\ http.requests = maxRetries + 1
                /\ http.outcome = "throw"
                /\ http.records = <<>>)
  /\ ((http.pc = "pace") ~> (http.pc = "done"))

C21_Witness ==
  /\ http.pc = "done"
  /\ http.status = 429
  /\ http.attempt = maxRetries + 1
  /\ http.requests = maxRetries + 1
  /\ http.outcome = "throw"

\* C22: an answer that is neither ok nor a 429 is never retried: the call
\* ends with that answer, no further request is issued, and
\* fetchShopifyCustomers throws; when it is the first answer exactly one
\* request was issued.
C22_ErrorNotRetried ==
  /\ [][(http.pc = "request" /\ http'.pc # "request"
           /\ ~isOk(http'.status) /\ http'.status # 429)
        => /\ http'.pc = "done"
           /\ http'.outcome = "throw"
           /\ http'.requests = http.requests]_vars
  /\ [](http.pc = "done" => http.requests = http.attempt + (IF http.status = 429 THEN 0 ELSE 1))

C22_Witness ==
  /\ http.pc = "done"
  /\ http.status = 500
  /\ http.requests = 1
  /\ http.outcome = "throw"

RECURSIVE Pow2(_)
Pow2(n) == IF n = 0 THEN 1 ELSE 2 * Pow2(n - 1)

\* The wait the claim asks for after a 429: the hint when there is one,
\* otherwise one second doubled with every further attempt.
ClaimedWaitMs(hint, attempt) ==
  IF hint # 0 THEN hint * 1000 ELSE 1000 * Pow2(attempt - 1)

\* C24: after a 429 the client sleeps the hinted number of seconds before
\* it retries, on every attempt and for every hint, and an exponential
\* schedule in the attempt number when there is no hint.
C24_WaitsHintedSeconds ==
  [][(http.pc = "backoff" /\ http'.pc = "pace")
     => http'.slept = ClaimedWaitMs(http.hint, http.attempt)]_vars


\* C25: repeated failure-free invocations of an active campaign over the
\* finite directory eventually reach status 'done', also when no customer
\* passes the segment or every matching customer is suppressed; and every
\* invocation that read a non-empty page commits a strictly larger cursor.
C25_EventuallyDone ==
  /\ [][\A p \in Procs :
          (pc[p] = "commit" /\ pc'[p] = "idle" /\ since[p] # camp[p].since_id)
          => row'.since_id > row.since_id]_vars
  /\ <>(row.status = "done")

\* Every matching customer was suppressed: nothing was ever mailed, the
\* cursor is at the end of the directory and the campaign is done.
C25_Witness ==
  /\ AllIdle
  /\ row.status = "done"
  /\ row.segment = <<"e","n">>
  /\ row.sent_count = 0
  /\ row.skipped_count = 2
  /\ row.since_id = 4
  /\ \A c \in CustomerIds : mailed[c] = 0

\* The language code a language-marker tag stands for.
LangCode(t) == IF isLangTag(t) THEN stripLangPrefix(t) ELSE t

\* The match keys the description lists: full locale, base language, the
\* code of every language-marker tag, every tag resembling a full locale.
ListedKeys(c) ==
  ({custLocale(c), custLang(c)}
     \cup {LangCode(t) : t \in {u \in Range(custTags(c)) : isLangTag(u) \/ isBareLang(u)}}
     \cup {t \in Range(custTags(c)) : isFullLocale(t)}) \ {<<>>}

\* C26: the decision is true exactly when the segment is empty or is one of
\* the listed keys of the customer (full locale, base language, code of any
\* language-marker tag, any full-locale-like tag); nothing else makes a
\* customer match.
C26_OnlyListedKeysMatch ==
  probe.decided =>
    (probe.match <=> (probe.segment = <<>> \/ probe.segment \in ListedKeys(probe.cust)))

\* The customer's only signals are a base language: the locale is empty or a
\* two-letter code, and every tag is a language marker.
OnlyBaseSignals(c) ==
  /\ custLocale(c) = <<>> \/ isBareLang(custLocale(c))
  /\ \A t \in Range(custTags(c)) : isBareLang(t) \/ isLangTag(t)

\* The customer's locale, or one of its locale-like tags, is b-<region>.
HasRegionOf(c, b) ==
  \/ Len(custLocale(c)) >= 4 /\ SubSeq(custLocale(c), 1, 3) = b \o <<"-">>
  \/ \E t \in Range(custTags(c)) : isFullLocale(t) /\ SubSeq(t, 1, 2) = b

\* C27: a full-locale segment never matches a customer whose only signals
\* are a base language, and a base-language segment matches every customer
\* whose locale or locale-like tag is that language with a region.
C27_FullLocaleVersusBase ==
  probe.decided =>
    /\ isFullLocale(probe.segment) /\ OnlyBaseSignals(probe.cust) => ~probe.match
    /\ isBareLang(probe.segment) /\ HasRegionOf(probe.cust, probe.segment) => probe.match

\* Segment 'en' has matched a customer whose locale is 'fr' and whose one tag
\* is 'en_US'.
C27_Witness ==
  /\ probe.decided /\ probe.match
  /\ probe.segment = <<"e","n">>
  /\ probe.cust.locale = <<"f","r">>
  /\ probe.cust.tags = <<"e","n","_","U","S">>

\* C28: for the customer with locale 'en-GB' and tag 'lang-en' the decision
\* is match for 'en', match for 'en-gb' and no match for 'fr'.
C28_Example ==
  probe.decided /\ probe.cust.locale = <<"e","n","-","G","B">> /\ probe.cust.tags = <<"l","a","n","g","-","e","n">> =>
    /\ probe.segment = <<"e","n">> => probe.match
    /\ probe.segment = <<"e","n","-","g","b">> => probe.match
    /\ probe.segment = <<"f","r">> => ~probe.match

\* The decision for that customer and segment 'en-gb' has been taken.
C28_Witness ==
  /\ probe.decided /\ probe.match
  /\ probe.cust.locale = <<"e","n","-","G","B">>
  /\ probe.cust.tags = <<"l","a","n","g","-","e","n">>
  /\ probe.segment = <<"e","n","-","g","b">>

\* C29: when the terminal commit of an invocation fails, the counters, the
\* cursor and the status keep the values the invocation loaded and the lock
\* stays set to the end of its lease; until then a later invocation is
\* refused and changes nothing, and after it a later invocation acquires the
\* lock and runs.
C29_FailedCommitKeepsRow ==
  [][\A p \in Procs :
       /\ pc[p] = "commit" /\ pc'[p] = "idle" /\ row'.lock_until # NULL
            => /\ Snapshot(row') = camp[p]
               /\ row'.last_run_at = row.last_run_at
               /\ row'.lock_until = lease[p]
       /\ pc[p] = "lock" /\ pc'[p] # "lock" /\ row.lock_until # NULL
            => IF row.lock_until < now
               THEN /\ pc'[p] \in {"fetch", "commit"}
                    /\ row'.lock_until = now + Lease
               ELSE pc'[p] = "idle" /\ row' = row]_vars

\* Mail went out, no commit was ever stored, and after the lease of the
\* failed invocation ran out a later invocation holds the lock and is paging.
C29_Witness ==
  /\ mailed[1] >= 1
  /\ row.last_run_at = NULL /\ row.sent_count = 0 /\ row.since_id = 0
  /\ now = Lease + 1
  /\ \E p \in Procs : pc[p] = "fetch" /\ row.lock_until = now + Lease

\* C30: a status of 'paused' or 'cancelled' set by an administrator while an
\* invocation is in progress is still there at the next invocation boundary:
\* no step of the runner replaces it, and an invocation that starts while it
\* is set ends at once without changing the campaign.
C30_PauseTakesEffect ==
  [][/\ row.status \in AdminStatuses => row'.status = row.status
     /\ \A p \in Procs :
          pc[p] = "idle" /\ started' = started + 1 /\ row.status \in AdminStatuses
            => pc'[p] = "idle" /\ row' = row]_vars

\* The configuration columns of the campaign row.
Config(r) ==
  [subject |-> r.subject, html |-> r.html, segment |-> r.segment,
   per_hour_limit |-> r.per_hour_limit, total_cap |-> r.total_cap]

\* C31: no step of the runner (lock acquire, release, terminal commit, or
\* any other) changes subject, html, segment, per_hour_limit or total_cap.
C31_ConfigImmutable == [][Config(row') = Config(row)]_vars

\* A commit has been stored, a failed invocation has released the lock, and
\* a later invocation holds the lock again.
C31_Witness ==
  /\ row.last_run_at # NULL /\ row.since_id > 0
  /\ row.lock_until # NULL
  /\ response = "failed"
  /\ \E p \in Procs : pc[p] = "idle" /\ \E q \in Procs : pc[q] = "fetch"

\* The fields of the structured result.
ResultFields ==
  {"attempted", "sent", "failed", "skipped", "since_id", "total_sent", "status"}

\* C32: every invocation that got the lock answers with a body carrying
\* attempted, sent, failed, skipped, the next cursor, the total sent and the
\* status, also when it fails after some sends were made.
C32_StructuredResultAlways ==
  [][\A p \in Procs :
       pc[p] \in {"lock", "fetch", "send", "mail"} /\ pc'[p] \in {"commit", "release"}
         => ResultFields \subseteq DOMAIN (answerOf(p)')]_vars

\* C39: in every success result attempted = sent + failed + skipped and
\* total_sent = (sent_count read at invocation start) + sent.
C39_ResultArithmetic ==
  \A p \in Procs :
     pc[p] = "commit" =>
       LET r == successResult(p)
       IN /\ r.attempted = r.sent + r.failed + r.skipped
          /\ r.total_sent = camp[p].sent_count + r.sent

\* A later invocation, started from a row that already counts a sent mail,
\* has answered after handling at least one recipient.
C39_Witness ==
  \E p \in Procs :
     /\ pc[p] = "commit" /\ response = "ok"
     /\ camp[p].sent_count >= 1
     /\ Len(toSend[p]) >= 1
     /\ sent[p] + failed[p] + skipped[p] >= 1

\* C33: a fault met in the send loop (a failing suppression lookup, a failing
\* send) is resolved into the counters: the invocation never leaves its send
\* loop for the failure path, it goes on to the next recipient or to its
\* terminal commit.
C33_SendLoopFaultsAreCounted ==
  [][\A p \in Procs :
       pc[p] \in {"send", "mail"} => pc'[p] # "release"]_vars

\* C34: when an invocation acquires the lock, the counters and the cursor it
\* read before (its base) are those of the row at that moment.
C34_BaseIsCurrentAtAcquire ==
  [][\A p \in Procs :
       pc[p] = "lock" /\ pc'[p] \in {"fetch", "commit"}
         => /\ camp[p].sent_count = row.sent_count
            /\ camp[p].failed_count = row.failed_count
            /\ camp[p].skipped_count = row.skipped_count
            /\ camp[p].since_id = row.since_id]_vars

\* C35: no two invocations are at the same time between their successful
\* lock acquisition and their own terminal commit or release, also when a
\* lease runs out while its holder is still paging or sending.
C35_OneHolderDespiteExpiry ==
  \A p, q \in Procs :
     pc[p] \in Critical /\ pc[q] \in Critical => p = q

\* C36: when no invocation fails or crashes and no lease runs out under its
\* holder, every directory customer is handed to the mailer at most once
\* over the life of the campaign, however the invocations interleave.
C36_MailedAtMostOnce == \A c \in CustomerIds : mailed[c] <= 1

\* The customers with an address that match the segment of row r and are
\* positioned at or before its cursor.
MatchingUpToCursor(r) ==
  {i \in 1..Len(Directory) :
     /\ Directory[i].id <= r.since_id
     /\ Directory[i].email # <<>>
     /\ matchesSegment(Directory[i], r)}

\* C37: while the campaign is 'active', every matching customer at or before
\* the persisted cursor has been placed in the batch of some invocation, and
\* so is counted in sent_count, failed_count or skipped_count; the cursor
\* never passes a matching customer that was not collected.  (Sequential
\* invocations without failures: each collected customer is counted once.)
C37_CursorCoversOnlyCollected ==
  row.status = "active" =>
    row.sent_count + row.failed_count + row.skipped_count
      >= Cardinality(MatchingUpToCursor(row))

\* C38: when an invocation has returned its success result, its terminal
\* update is already in the row: at the moment a later invocation starts,
\* applying the update of any invocation that has answered changes nothing
\* (counters, cursor and status are stored and the lock is free).
C38_AnsweredMeansCommitted ==
  [][started' = started + 1 =>
       \A p \in Procs :
          pc[p] = "commit" =>
            row = terminalUpdate(row, camp[p], since[p], sent[p], failed[p],
                                 skipped[p], row.last_run_at)]_vars

====
